---- MODULE Spec2Model ----
(***************************************************************************)
(* A model of main.py of whatsapp-gdrive-extractor: the paginated lister   *)
(* (WaBackup.list_path), the integrity checker (have_file), the transfer   *)
(* unit (WaBackup.fetch, download_file), the thread pool of fetch_all, and *)
(* the sync loop with its md5sum.txt ledger.                               *)
(*                                                                         *)
(* Python strings that the code takes apart are sequences of tokens, the   *)
(* separator "/" being a token of its own, so that split and join are      *)
(* computed and not assumed.  File contents are sequences of bytes.        *)
(***************************************************************************)
EXTENDS Naturals, Sequences, FiniteSets, TLC

VARIABLES
    pc,         \* position of the main thread
    runs,       \* number of sync() calls started so far (bounds the model)
    remote,     \* what the server holds: pages of backups, pages of files
    sep,        \* os.path.sep of the host
    fs,         \* the local file system: path -> contents
    ledger,     \* the lines of md5sum.txt
    bgen,       \* the generator wa_backup.backups() of sync
    fgen,       \* the generator self.backup_files(backup) of fetch_all
    backup,     \* the loop variable of sync
    files,      \* the list of fetch_all, line 252
    nextTask,   \* index of the next task a worker takes from the pool's queue
    inflight,   \* task index -> state of the fetch call a worker is running
    outq,       \* results the workers have put, not yet consumed
    consumed,   \* how many results the for loop of fetch_all has taken
    num_files,  \* fetch_all's counter
    total_size, \* fetch_all's byte total
    status,     \* per backup: how far sync has taken it
    failed,     \* task indices whose HTTP request failed, this fetch_all
    reported,   \* file records some fetch call has returned normally for
    cause,      \* why the process ended, when it has
    probe       \* the last have_file call made on its own: arguments, result

vars == <<pc, runs, remote, sep, fs, ledger, bgen, fgen, backup, files,
          nextTask, inflight, outq, consumed, num_files, total_size, status,
          failed, reported, cause, probe>>

-----------------------------------------------------------------------------
(* Bounds of the model *)

MaxRuns == 2
MaxPages == 3
MaxPageLen == 2
MaxLen == 2
MaxPoolFiles == 11

-----------------------------------------------------------------------------
(* Values *)

None == "None"

Bytes == {0, 1}

RECURSIVE SeqsUpTo(_, _)
SeqsUpTo(S, n) ==
    IF n = 0 THEN {<<>>}
    ELSE LET shorter == SeqsUpTo(S, n - 1)
         IN  shorter \cup {Append(s, x) : s \in {t \in shorter : Len(t) = n - 1}, x \in S}

Contents == SeqsUpTo(Bytes, MaxLen)

Min(a, b) == IF a < b THEN a ELSE b

IsPrefix(s, t) == Len(s) <= Len(t) /\ SubSeq(t, 1, Len(s)) = s

-----------------------------------------------------------------------------
(* str.split and str.join on token sequences *)

RECURSIVE SplitFrom(_, _, _, _)
SplitFrom(s, d, i, cur) ==
    IF i > Len(s) THEN <<cur>>
    ELSE IF s[i] = d THEN <<cur>> \o SplitFrom(s, d, i + 1, <<>>)
    ELSE SplitFrom(s, d, i + 1, Append(cur, s[i]))

Split(s, d) == SplitFrom(s, d, 1, <<>>)

RECURSIVE Join(_, _)
Join(d, segs) ==
    IF segs = <<>> THEN <<>>
    ELSE IF Len(segs) = 1 THEN segs[1]
    ELSE segs[1] \o <<d>> \o Join(d, Tail(segs))

\* s[n:] of a Python list
SliceFrom(s, n) == IF n >= Len(s) THEN <<>> ELSE SubSeq(s, n + 1, Len(s))

\* s[-1] of a Python list
Last(s) == s[Len(s)]

-----------------------------------------------------------------------------
(* hashlib.md5, base64 and hex *)

\* digest.update(b): the digest is a stand-in for MD5 that folds the bytes in
\* order and tells apart all the contents of the model.
RECURSIVE MD5Update(_, _)
MD5Update(h, b) ==
    IF b = <<>> THEN h ELSE MD5Update(3 * h + b[1] + 1, Tail(b))

READ_SIZE == 8 * 1024

\* the read loop of have_file: read(8 * 1024) until an empty read
RECURSIVE ReadLoop(_, _, _)
ReadLoop(content, pos, h) ==
    LET b == SubSeq(content, pos + 1, Min(pos + READ_SIZE, Len(content)))
    IN  IF b = <<>> THEN h ELSE ReadLoop(content, pos + Len(b), MD5Update(h, b))

\* the digest of a whole content, as the server computes it
MD5(content) == MD5Update(0, content)

\* the wire form of a hash and its decoding
B64Encode(d) == [b64 |-> d]
b64decode(w) == w.b64

\* bytes.hex()
Hex(d) == <<"hex", d>>

\* the wire form of a size and int()
SizeStr(n) == [digits |-> n]
int(s) == s.digits

-----------------------------------------------------------------------------
(* have_file and the local name of a remote file *)

\* a checker that accepts on the size alone
have_file_size_only(fsys, file, size, md5) ==
    ~(file \notin DOMAIN fsys \/ size # Len(fsys[file]))

\* the digest.update calls of the read loop, lines 87-91
RECURSIVE UpdateCalls(_, _)
UpdateCalls(content, pos) ==
    LET b == SubSeq(content, pos + 1, Min(pos + READ_SIZE, Len(content)))
    IN  IF b = <<>> THEN 0 ELSE 1 + UpdateCalls(content, pos + Len(b))

\* a check that hashes whatever file exists before it looks at the size
have_file_run_hash_first(fsys, file, size, md5) ==
    IF file \notin DOMAIN fsys
    THEN [result |-> FALSE, opened |-> FALSE, hashed |-> 0]
    ELSE [result |-> size = Len(fsys[file]) /\ md5 = ReadLoop(fsys[file], 0, 0),
          opened |-> TRUE,
          hashed |-> 2 + UpdateCalls(fsys[file], 0)]

\* one run of have_file, lines 82-93: its result, whether it opened the file
\* (line 86) and the calls it made to hashlib (md5(), update, digest())
have_file_run(fsys, file, size, md5) ==
    IF file \notin DOMAIN fsys \/ size # Len(fsys[file])
    THEN [result |-> FALSE, opened |-> FALSE, hashed |-> 0]
    ELSE [result |-> md5 = ReadLoop(fsys[file], 0, 0),
          opened |-> TRUE,
          hashed |-> 2 + UpdateCalls(fsys[file], 0)]

\* have_file(file, size, md5), lines 70-93, on the file system fsys
have_file(fsys, file, size, md5) == have_file_run(fsys, file, size, md5).result

\* a derivation that drops one segment more
LocalName_four(name, s) == Join(s, SliceFrom(Split(name, "/"), 4))

\* a derivation that keeps the directory and drops the file's own segment
LocalName_flat(name, s) ==
    LET segs == Split(name, "/") IN Join(s, SubSeq(segs, 4, Len(segs) - 1))

\* os.path.sep.join(file["name"].split("/")[3:]), lines 232 and 347
LocalName(name, s) == Join(s, SliceFrom(Split(name, "/"), 3))

\* str.replace on tokens
RECURSIVE Replace(_, _, _)
Replace(s, a, b) ==
    IF s = <<>> THEN <<>>
    ELSE <<IF s[1] = a THEN b ELSE s[1]>> \o Replace(Tail(s), a, b)

\* file["name"].replace("%", "%25").replace("+", "%2B"), line 237
UrlEscape(name) == Replace(Replace(name, "%", "%25"), "+", "%2B")

-----------------------------------------------------------------------------
(* The remote side: the listing and content protocol of the server *)

BackupsPath == <<"clients", "/", "wa", "/", "backups">>

BackupName(b) == BackupsPath \o <<"/", b>>

BackupRecord(b, size) == [name |-> BackupName(b), sizeBytes |-> SizeStr(size)]

FileName(b, leaf) == BackupName(b) \o <<"/", "files", "/", "Media", "/", leaf>>

\* a file record as the server lists it for a file of the given content
FileRecord(b, leaf, content) ==
    [name      |-> FileName(b, leaf),
     sizeBytes |-> SizeStr(Len(content)),
     md5Hash   |-> B64Encode(MD5(content))]

\* a key of a JSON object: a string of one token
Key(k) == <<k>>

\* the continuation cursor the server hands out for page i
Cursor == <<"c1", "c2", "c3", "c4", "c5", "c6">>

\* the pages the server holds for a listing path
ListingOf(rem, path) ==
    IF path = BackupsPath THEN rem.backups
    ELSE rem.files[SubSeq(path, 1, Len(path) - 2)]

\* the page a request with these parameters asks for
PageIndex(params) ==
    IF "pageToken" \notin DOMAIN params THEN 1
    ELSE CHOOSE i \in 1..Len(Cursor) : Cursor[i] = params.pageToken

\* the JSON body of page i: the record array under the key named after the
\* last path segment, and nextPageToken on every page but the last
PageBody(pages, key, i) ==
    [k \in {key} \cup (IF i < Len(pages) THEN {Key("nextPageToken")} ELSE {}) |->
        IF k = key THEN pages[i] ELSE Cursor[i + 1]]

\* the server's decoding of a request path
UrlUnescape(path) == Replace(Replace(path, "%2B", "+"), "%25", "%")

\* the body of a 2xx answer to GET path with params
ServerBody(rem, path, params) ==
    IF "alt" \in DOMAIN params
    THEN rem.content[UrlUnescape(path)]
    ELSE PageBody(ListingOf(rem, path), Last(Split(path, "/")), PageIndex(params))

\* bodies of an answer with an error status: not JSON at all, or the JSON
\* error object of the API, which holds no record array
NotJson == [k \in {<<"not", "json">>} |-> <<>>]
ErrorObject == [k \in {Key("error")} |-> <<"status">>]
ErrorBodies == {NotJson, ErrorObject}

\* what the network does to one request: a 2xx answer, an answer with an
\* error status and some body, or no answer at all (nobody: no body)
Outcomes(bodies, nobody) ==
    {[kind |-> "ok", body |-> nobody]}
    \cup {[kind |-> "http_error", body |-> b] : b \in bodies}
    \cup {[kind |-> k, body |-> nobody] : k \in {"conn_error", "timeout"}}

\* params=None of requests.get
NoParams == <<>>

-----------------------------------------------------------------------------
(* WaBackup.get, get_page and list_path *)

\* get(path, params), lines 135-163.  requests.get raising leaves `response`
\* unbound, so `return response` raises UnboundLocalError; an error status
\* is printed and the response returned all the same.
get(rem, path, params, o) ==
    IF o.kind = "ok"
    THEN [raised |-> FALSE, status |-> "ok", body |-> ServerBody(rem, path, params)]
    ELSE IF o.kind = "http_error"
    THEN [raised |-> FALSE, status |-> "http_error", body |-> o.body]
    ELSE [raised |-> TRUE, status |-> o.kind, body |-> o.body]

\* get_page(path, page_token), lines 165-179: .json() of what get returns
get_page(rem, path, page_token, o) ==
    LET r == get(rem, path, IF page_token = None THEN NoParams
                            ELSE [pageToken |-> page_token], o)
    IN  IF r.raised \/ r.body = NotJson
        THEN [raised |-> TRUE, page |-> NoParams]
        ELSE [raised |-> FALSE, page |-> r.body]

\* the generator list_path(path) before its first next(); out, requests and
\* errors record what it has yielded, the cursors it has sent and the number
\* of its requests that failed
NewGen(path) ==
    [path |-> path, st |-> "request", page_token |-> None, page |-> <<>>,
     i |-> 0, out |-> <<>>, requests |-> <<>>, errors |-> 0]

last_component(g) == Last(Split(g.path, "/"))

\* a lister that takes a failed request for the end of the listing
GenRequest_swallow(g, rem, o) ==
    LET r == get_page(rem, g.path, g.page_token, o)
        g1 == [g EXCEPT !.requests = Append(@, g.page_token),
                        !.errors = IF o.kind = "ok" THEN @ ELSE @ + 1]
    IN  IF r.raised \/ last_component(g) \notin DOMAIN r.page
        THEN [g1 EXCEPT !.st = "done"]
        ELSE [g1 EXCEPT !.st = "items", !.page = r.page, !.i = 1]

\* line 194 and the entry into the for loop of line 195
GenRequest(g, rem, o) ==
    LET r == get_page(rem, g.path, g.page_token, o)
        g1 == [g EXCEPT !.requests = Append(@, g.page_token),
                        !.errors = IF o.kind = "ok" THEN @ ELSE @ + 1]
    IN  IF r.raised \/ last_component(g) \notin DOMAIN r.page
        THEN [g1 EXCEPT !.st = "raised"]
        ELSE [g1 EXCEPT !.st = "items", !.page = r.page, !.i = 1]

GenHasItem(g) == g.st = "items" /\ g.i <= Len(g.page[last_component(g)])

\* line 196: yield item
GenYield(g) ==
    [g EXCEPT !.out = Append(@, g.page[last_component(g)][g.i]), !.i = @ + 1]

\* a lister that forgets line 199 and asks again with the cursor it had
GenPageEnd_stale(g) ==
    IF Key("nextPageToken") \notin DOMAIN g.page
    THEN [g EXCEPT !.st = "done"]
    ELSE [g EXCEPT !.st = "request"]

\* a lister that asks again after a page without a cursor, with the cursor
\* it still holds
GenPageEnd_rerequest(g) ==
    IF Key("nextPageToken") \notin DOMAIN g.page
    THEN [g EXCEPT !.st = "request"]
    ELSE [g EXCEPT !.st = "request", !.page_token = g.page[Key("nextPageToken")]]

\* lines 197-199, after the last item of a page
GenPageEnd(g) ==
    IF Key("nextPageToken") \notin DOMAIN g.page
    THEN [g EXCEPT !.st = "done"]
    ELSE [g EXCEPT !.st = "request", !.page_token = g.page[Key("nextPageToken")]]

-----------------------------------------------------------------------------
(* WaBackup.fetch and download_file, as run by one worker of the pool *)

\* bodies an answer with an error status may carry on a content request
ErrorContents == {<<>>, <<1, 1>>}

\* lines 232-234: the local name, the raw hash, the integrity check; existed
\* records whether the check found a file at the name, reqs counts the
\* content requests of the task
FetchBegin(fsys, file, s) ==
    LET name == LocalName(file.name, s)
        md5Hash == b64decode(file.md5Hash)
    IN  [file |-> file, name |-> name, md5Hash |-> md5Hash, body |-> <<>>,
         via |-> "none", existed |-> name \in DOMAIN fsys, reqs |-> 0,
         phase |-> IF have_file(fsys, name, int(file.sizeBytes), md5Hash)
                   THEN "ret" ELSE "get"]

\* line 237: the content request of a task
FetchRequest(rem, t, o) ==
    get(rem, UrlEscape(t.file.name), [alt |-> "media"], o)

\* an open that keeps what the file holds
OpenTruncate_append(fsys, name) ==
    [p \in DOMAIN fsys \cup {name} |-> IF p \in DOMAIN fsys THEN fsys[p] ELSE <<>>]

\* line 104: open(file, "bw") creates or truncates the file
OpenTruncate(fsys, name) ==
    [p \in DOMAIN fsys \cup {name} |-> IF p = name THEN <<>> ELSE fsys[p]]

\* lines 105-106: the chunks of the body written in order
WriteBody(fsys, name, body) ==
    [p \in DOMAIN fsys \cup {name} |-> IF p = name THEN fsys[name] \o body ELSE fsys[p]]

\* a fetch that returns the number of bytes it has downloaded
Result_transferred(t) ==
    [ok |-> TRUE, name |-> t.name, size |-> IF t.via = "none" THEN 0 ELSE Len(t.body),
     md5Hash |-> t.md5Hash, via |-> t.via]

\* line 240: what fetch returns, as the pool hands it to the consumer; via
\* records how the request of the task went ("none": no request was made)
Result(t) ==
    [ok |-> TRUE, name |-> t.name, size |-> int(t.file.sizeBytes),
     md5Hash |-> t.md5Hash, via |-> t.via]

\* an exception raised by fetch, as the pool hands it to the consumer
Raised(kind) == [ok |-> FALSE, name |-> <<>>, size |-> 0, md5Hash |-> 0, via |-> kind]

\* ThreadPool(10), line 254
POOL_SIZE == 10

\* a pool that starts a thread per task
PoolHasIdleWorker_unbounded(running) == TRUE

\* a worker is free to take the next task
PoolHasIdleWorker(running) == Cardinality(DOMAIN running) < POOL_SIZE

\* line 263: cksums.write(f"{md5Hash.hex()} *{name}\n")
LedgerLine(md5Hash, name) == <<Hex(md5Hash), " *">> \o name \o <<"\n">>

\* a writer that rewrites the file on every line
LedgerWrite_rewrite(lines, line) == <<line>>

LedgerWrite(lines, line) == Append(lines, line)

\* open("md5sum.txt", "w", ...), line 361
LedgerOpen(lines) == <<>>

\* a fetch that writes the ledger line of its file itself, in the worker
FetchLedger_writes(lines, t) == Append(lines, LedgerLine(t.md5Hash, t.name))

\* the ledger as a fetch call leaves it: fetch hands its result to the caller
\* (line 240) and has no access to cksums
FetchLedger(lines, t) == lines

Without(f, i) == [j \in DOMAIN f \ {i} |-> f[j]]

With(f, i, v) == [j \in DOMAIN f \cup {i} |-> IF j = i THEN v ELSE f[j]]

-----------------------------------------------------------------------------
(* The catalogue of the server in a sync run *)

Content11 == <<0, 1>>
Content12 == <<1>>
Content21 == <<0>>

File11 == FileRecord("b1", "img1.jpg", Content11)
File12 == FileRecord("b1", "img2.jpg", Content12)
File21 == FileRecord("b2", "img1.jpg", Content21)

\* two backups listed on two pages; b1 holds two files on two pages
Catalogue ==
    [backups |-> << <<BackupRecord("b1", 3)>>, <<BackupRecord("b2", 1)>> >>,
     files   |-> [n \in {BackupName("b1"), BackupName("b2")} |->
                    IF n = BackupName("b1") THEN << <<File11>>, <<File12>> >>
                    ELSE << <<File21>> >>],
     content |-> [n \in {File11.name, File12.name, File21.name} |->
                    IF n = File11.name THEN Content11
                    ELSE IF n = File12.name THEN Content12 ELSE Content21]]

BackupNames(rem) == DOMAIN rem.files

Seps == {"/", "\\"}

NoProbe ==
    [file |-> <<>>, size |-> 0, md5 |-> 0, result |-> FALSE, calls |-> 0, before |-> <<>>,
     opened |-> FALSE, hashed |-> 0]

\* the variables of one fetch_all call, before the call
PoolIdle ==
    /\ files = <<>>
    /\ nextTask = 1
    /\ inflight = <<>>
    /\ outq = <<>>
    /\ consumed = 0
    /\ num_files = 0
    /\ total_size = 0
    /\ failed = {}

Init ==
    /\ pc = "menu"
    /\ runs = 0
    /\ remote = Catalogue
    /\ sep \in Seps
    /\ fs \in {<<>>,
               [n \in {LocalName(File11.name, sep)} |-> Content11],
               [n \in {LocalName(File11.name, sep)} |-> <<1, 0>>],
               [n \in {LocalName(File11.name, sep)} |-> <<1>>]}
    /\ ledger = <<>>
    /\ bgen = NewGen(BackupsPath)
    /\ fgen = NewGen(BackupsPath)
    /\ backup = BackupRecord("b1", 3)
    /\ PoolIdle
    /\ status = [n \in BackupNames(remote) |-> "Unlisted"]
    /\ reported = {}
    /\ cause = "none"
    /\ probe = NoProbe

-----------------------------------------------------------------------------
(* menu and sync *)

\* an uncaught exception, or exit(): the process ends, its daemon worker
\* threads with it; what is on disk stays
ProcessEnds(why) ==
    /\ pc' = "exited"
    /\ cause' = why
    /\ inflight' = <<>>
    /\ outq' = <<>>

\* choice 3 of the menu: sync(), lines 360-361
MenuSync ==
    /\ pc = "menu"
    /\ runs < MaxRuns
    /\ runs' = runs + 1
    /\ bgen' = NewGen(BackupsPath)
    /\ ledger' = LedgerOpen(ledger)
    /\ status' = [n \in BackupNames(remote) |-> "Unlisted"]
    /\ pc' = "sync_next"
    /\ UNCHANGED <<remote, sep, fs, fgen, backup, files, nextTask, inflight, outq,
                   consumed, num_files, total_size, failed, reported, cause, probe>>

\* choice 4 of the menu
MenuExit ==
    /\ pc = "menu"
    /\ ProcessEnds("exit")
    /\ UNCHANGED <<runs, remote, sep, fs, ledger, bgen, fgen, backup, files, nextTask,
                   consumed, num_files, total_size, status, failed, reported, probe>>

\* the program is started again
Restart ==
    /\ pc = "exited"
    /\ runs < MaxRuns
    /\ pc' = "menu"
    /\ cause' = "none"
    /\ UNCHANGED <<runs, remote, sep, fs, ledger, bgen, fgen, backup, files, nextTask,
                   inflight, outq, consumed, num_files, total_size, status, failed,
                   reported, probe>>

\* line 362 asks the backups generator for its next item: a page request
BackupsRequest(o) ==
    /\ pc = "sync_next"
    /\ bgen.st = "request"
    /\ bgen' = GenRequest(bgen, remote, o)
    /\ IF bgen'.st = "raised"
       THEN ProcessEnds("listing")
       ELSE UNCHANGED <<pc, cause, inflight, outq>>
    /\ UNCHANGED <<runs, remote, sep, fs, ledger, fgen, backup, files, nextTask,
                   consumed, num_files, total_size, status, failed, reported, probe>>

\* line 362: the generator yields the next backup
BackupsYield ==
    /\ pc = "sync_next"
    /\ GenHasItem(bgen)
    /\ bgen' = GenYield(bgen)
    /\ backup' = Last(bgen'.out)
    /\ status' = [status EXCEPT ![backup'.name] = "Listed"]
    /\ pc' = "confirm"
    /\ UNCHANGED <<runs, remote, sep, fs, ledger, fgen, files, nextTask, inflight, outq,
                   consumed, num_files, total_size, failed, reported, cause, probe>>

\* line 362: a page of backups is used up; without a cursor, sync returns
BackupsPageEnd ==
    /\ pc = "sync_next"
    /\ bgen.st = "items"
    /\ ~GenHasItem(bgen)
    /\ bgen' = GenPageEnd(bgen)
    /\ pc' = IF bgen'.st = "done" THEN "menu" ELSE pc
    /\ UNCHANGED <<runs, remote, sep, fs, ledger, fgen, backup, files, nextTask,
                   inflight, outq, consumed, num_files, total_size, status, failed,
                   reported, cause, probe>>

\* line 363: get_user_confirmation; on 'y', lines 364-365 and 250-252
Confirm(yes) ==
    /\ pc = "confirm"
    /\ IF yes
       THEN /\ status' = [status EXCEPT ![backup.name] = "Confirmed"]
            /\ fgen' = NewGen(backup.name \o <<"/", "files">>)
            /\ num_files' = 0
            /\ total_size' = 0
            /\ pc' = "listing"
       ELSE /\ pc' = "sync_next"
            /\ UNCHANGED <<status, fgen, num_files, total_size>>
    /\ UNCHANGED <<runs, remote, sep, fs, ledger, bgen, backup, files, nextTask,
                   inflight, outq, consumed, failed, reported, cause, probe>>

-----------------------------------------------------------------------------
(* fetch_all, line 252: files = list(self.backup_files(backup)) *)

FilesRequest(o) ==
    /\ pc = "listing"
    /\ fgen.st = "request"
    /\ fgen' = GenRequest(fgen, remote, o)
    /\ IF fgen'.st = "raised"
       THEN ProcessEnds("listing")
       ELSE UNCHANGED <<pc, cause, inflight, outq>>
    /\ UNCHANGED <<runs, remote, sep, fs, ledger, bgen, backup, files, nextTask,
                   consumed, num_files, total_size, status, failed, reported, probe>>

FilesYield ==
    /\ pc = "listing"
    /\ GenHasItem(fgen)
    /\ fgen' = GenYield(fgen)
    /\ UNCHANGED <<pc, runs, remote, sep, fs, ledger, bgen, backup, files, nextTask,
                   inflight, outq, consumed, num_files, total_size, status, failed,
                   reported, cause, probe>>

\* a page of files is used up; without a cursor the list is complete and the
\* pool of line 254 starts
\* a call that hands the pool what the first page held
ListComplete_first_page(g) == Len(g.requests) >= 1

\* line 252: list(...) returns when the generator is exhausted
ListComplete(g) == g.st = "done"

FilesPageEnd ==
    /\ pc = "listing"
    /\ fgen.st = "items"
    /\ ~GenHasItem(fgen)
    /\ fgen' = GenPageEnd(fgen)
    /\ IF ListComplete(fgen')
       THEN /\ files' = fgen'.out
            /\ nextTask' = 1
            /\ consumed' = 0
            /\ failed' = {}
            /\ status' = [status EXCEPT ![backup.name] = "Transferring"]
            /\ pc' = "pool"
       ELSE UNCHANGED <<files, nextTask, consumed, failed, status, pc>>
    /\ UNCHANGED <<runs, remote, sep, fs, ledger, bgen, backup, inflight, outq,
                   num_files, total_size, reported, cause, probe>>

-----------------------------------------------------------------------------
(* fetch_all, lines 254-263: the pool and the loop over its results *)

\* a free worker takes the next task and runs fetch up to the integrity check
Dispatch ==
    /\ pc = "pool"
    /\ nextTask <= Len(files)
    /\ PoolHasIdleWorker(inflight)
    /\ inflight' = With(inflight, nextTask, FetchBegin(fs, files[nextTask], sep))
    /\ nextTask' = nextTask + 1
    /\ UNCHANGED <<pc, runs, remote, sep, fs, ledger, bgen, fgen, backup, files, outq,
                   consumed, num_files, total_size, status, failed, reported, cause,
                   probe>>

\* fetch returns at once for a file the check accepted
FetchReturn(i) ==
    /\ pc = "pool"
    /\ i \in DOMAIN inflight
    /\ inflight[i].phase = "ret"
    /\ outq' = Append(outq, Result(inflight[i]))
    /\ reported' = reported \cup {inflight[i].file}
    /\ ledger' = FetchLedger(ledger, inflight[i])
    /\ inflight' = Without(inflight, i)
    /\ UNCHANGED <<pc, runs, remote, sep, fs, bgen, fgen, backup, files,
                   nextTask, consumed, num_files, total_size, status, failed, cause,
                   probe>>

\* the content request of line 237; when get raises, the worker hands the
\* exception to the consumer as the task's result
FetchGet(i, o) ==
    /\ pc = "pool"
    /\ i \in DOMAIN inflight
    /\ inflight[i].phase = "get"
    /\ LET r == FetchRequest(remote, inflight[i], o)
       IN  /\ failed' = IF r.status = "ok" THEN failed ELSE failed \cup {i}
           /\ IF r.raised
              THEN /\ outq' = Append(outq, Raised(r.status))
                   /\ inflight' = Without(inflight, i)
              ELSE /\ inflight' = [inflight EXCEPT ![i].phase = "open", ![i].body = r.body,
                                                   ![i].via = r.status, ![i].reqs = @ + 1]
                   /\ UNCHANGED outq
    /\ UNCHANGED <<pc, runs, remote, sep, fs, ledger, bgen, fgen, backup, files,
                   nextTask, consumed, num_files, total_size, status, reported, cause,
                   probe>>

\* download_file, lines 103-104
DownloadOpen(i) ==
    /\ pc = "pool"
    /\ i \in DOMAIN inflight
    /\ inflight[i].phase = "open"
    /\ fs' = OpenTruncate(fs, inflight[i].name)
    /\ inflight' = [inflight EXCEPT ![i].phase = "write"]
    /\ UNCHANGED <<pc, runs, remote, sep, ledger, bgen, fgen, backup, files, nextTask,
                   outq, consumed, num_files, total_size, status, failed, reported,
                   cause, probe>>

\* download_file, lines 105-106, and the return of fetch, line 240
DownloadWrite(i) ==
    /\ pc = "pool"
    /\ i \in DOMAIN inflight
    /\ inflight[i].phase = "write"
    /\ fs' = WriteBody(fs, inflight[i].name, inflight[i].body)
    /\ outq' = Append(outq, Result(inflight[i]))
    /\ reported' = reported \cup {inflight[i].file}
    /\ ledger' = FetchLedger(ledger, inflight[i])
    /\ inflight' = Without(inflight, i)
    /\ UNCHANGED <<pc, runs, remote, sep, bgen, fgen, backup, files, nextTask,
                   consumed, num_files, total_size, status, failed, cause, probe>>

\* lines 259-263: the loop takes the next result in completion order
Consume ==
    /\ pc = "pool"
    /\ outq # <<>>
    /\ Head(outq).ok
    /\ num_files' = num_files + 1
    /\ total_size' = total_size + Head(outq).size
    /\ ledger' = LedgerWrite(ledger, LedgerLine(Head(outq).md5Hash, Head(outq).name))
    /\ outq' = Tail(outq)
    /\ consumed' = consumed + 1
    /\ UNCHANGED <<pc, runs, remote, sep, fs, bgen, fgen, backup, files, nextTask,
                   inflight, status, failed, reported, cause, probe>>

\* line 259: the next result is an exception, which the iterator raises in
\* the main thread; nothing catches it in fetch_all, sync or menu
ConsumeRaise ==
    /\ pc = "pool"
    /\ outq # <<>>
    /\ ~Head(outq).ok
    /\ ProcessEnds("transfer")
    /\ UNCHANGED <<runs, remote, sep, fs, ledger, bgen, fgen, backup, files, nextTask,
                   consumed, num_files, total_size, status, failed, reported, probe>>

\* a loop that stops at the first result it has taken
IterationEnds_first(n, fl) == n >= Min(1, Len(fl))

\* line 259: the iterator of imap_unordered ends when the result of every
\* task has been taken from it
IterationEnds(n, fl) == n = Len(fl)

\* line 265: every result has been taken; fetch_all returns to sync
FetchAllReturn ==
    /\ pc = "pool"
    /\ IterationEnds(consumed, files)
    /\ status' = [status EXCEPT ![backup.name] = "Completed"]
    /\ pc' = "sync_next"
    /\ UNCHANGED <<runs, remote, sep, fs, ledger, bgen, fgen, backup, files, nextTask,
                   inflight, outq, consumed, num_files, total_size, failed, reported,
                   cause, probe>>

-----------------------------------------------------------------------------
(* Specifications *)

ListOutcomes == Outcomes(ErrorBodies, NotJson)

ContentOutcomes == Outcomes(ErrorContents, <<>>)

Tasks == 1..(MaxPoolFiles + 1)

NextList ==
    \/ \E o \in ListOutcomes : FilesRequest(o)
    \/ FilesYield
    \/ FilesPageEnd

NextPool ==
    \/ Dispatch
    \/ \E i \in Tasks : FetchReturn(i)
    \/ \E i \in Tasks, o \in ContentOutcomes : FetchGet(i, o)
    \/ \E i \in Tasks : DownloadOpen(i)
    \/ \E i \in Tasks : DownloadWrite(i)
    \/ Consume
    \/ ConsumeRaise
    \/ FetchAllReturn

Next ==
    \/ MenuSync
    \/ MenuExit
    \/ Restart
    \/ \E o \in ListOutcomes : BackupsRequest(o)
    \/ BackupsYield
    \/ BackupsPageEnd
    \/ \E yes \in BOOLEAN : Confirm(yes)
    \/ NextList
    \/ NextPool

Spec == Init /\ [][Next]_vars

-----------------------------------------------------------------------------
(* list_path on its own: fetch_all at line 252, for every listing of at    *)
(* most MaxPages pages of at most MaxPageLen records                       *)

Leaf == <<"img1.jpg", "img2.jpg", "img3.jpg", "img4.jpg", "img5.jpg", "img6.jpg",
          "img7.jpg", "img8.jpg", "img9.jpg", "img10.jpg", "img11.jpg", "img12.jpg">>

RECURSIVE SumUpTo(_, _)
SumUpTo(lens, i) == IF i = 0 THEN 0 ELSE lens[i] + SumUpTo(lens, i - 1)

\* the pages of the given lengths, holding the records 1, 2, ... in order
PagesOf(lens) ==
    [i \in 1..Len(lens) |->
        [j \in 1..lens[i] |-> FileRecord("b1", Leaf[SumUpTo(lens, i - 1) + j], <<>>)]]

Listings ==
    UNION {{PagesOf(lens) : lens \in [1..P -> 0..MaxPageLen]} : P \in 1..MaxPages}

RECURSIVE Flatten(_)
Flatten(pages) == IF pages = <<>> THEN <<>> ELSE pages[1] \o Flatten(Tail(pages))

InitList ==
    /\ pc = "listing"
    /\ runs = 1
    /\ \E pages \in Listings :
          remote = [Catalogue EXCEPT !.files[BackupName("b1")] = pages]
    /\ sep = "/"
    /\ fs = <<>>
    /\ ledger = <<>>
    /\ bgen = GenYield(GenRequest(NewGen(BackupsPath), Catalogue,
                                  [kind |-> "ok", body |-> NotJson]))
    /\ fgen = NewGen(BackupName("b1") \o <<"/", "files">>)
    /\ backup = BackupRecord("b1", 3)
    /\ PoolIdle
    /\ status = [n \in BackupNames(Catalogue) |->
                    IF n = BackupName("b1") THEN "Confirmed" ELSE "Unlisted"]
    /\ reported = {}
    /\ cause = "none"
    /\ probe = NoProbe

SpecList == InitList /\ [][NextList]_vars

-----------------------------------------------------------------------------
(* have_file on its own, for every file of at most MaxLen bytes *)

Path1 == <<"b1", "/", "files", "/", "Media", "/", "img1.jpg">>
Path2 == <<"b1", "/", "files", "/", "Media", "/", "img2.jpg">>

\* open(file, "br"), line 86, leaves the file system as it is
OpenRead(fsys, file) == fsys

\* one call of have_file; the probe keeps its arguments, its result and the
\* file system it was called on
HaveFileCall(file, size, md5) ==
    /\ pc = "check"
    /\ probe' = [file |-> file, size |-> size, md5 |-> md5,
                 result |-> have_file(fs, file, size, md5),
                 calls |-> Min(probe.calls + 1, 2), before |-> fs,
                 opened |-> have_file_run(fs, file, size, md5).opened,
                 hashed |-> have_file_run(fs, file, size, md5).hashed]
    /\ fs' = IF have_file_run(fs, file, size, md5).opened THEN OpenRead(fs, file) ELSE fs
    /\ UNCHANGED <<pc, runs, remote, sep, ledger, bgen, fgen, backup, files, nextTask,
                   inflight, outq, consumed, num_files, total_size, status, failed,
                   reported, cause>>

InitHave ==
    /\ pc = "check"
    /\ runs = 0
    /\ remote = Catalogue
    /\ sep = "/"
    /\ fs \in {<<>>} \cup {[n \in {Path1} |-> c] : c \in Contents}
    /\ ledger = <<>>
    /\ bgen = NewGen(BackupsPath)
    /\ fgen = NewGen(BackupsPath)
    /\ backup = BackupRecord("b1", 3)
    /\ PoolIdle
    /\ status = [n \in BackupNames(Catalogue) |-> "Unlisted"]
    /\ reported = {}
    /\ cause = "none"
    /\ probe = NoProbe

NextHave ==
    \E file \in {Path1, Path2}, size \in 0..(MaxLen + 1), c \in Contents :
        HaveFileCall(file, size, MD5(c))

SpecHave == InitHave /\ [][NextHave]_vars

-----------------------------------------------------------------------------
(* The pool on its own: fetch_all at line 254 with more files than workers. *)
(* The listing names one file that is not on disk and then, over and over,  *)
(* one file that is: the code takes the list as the server gives it.        *)

PoolFiles(n) == [k \in 1..n |-> IF k = n THEN File11 ELSE File12]

InitPool ==
    /\ pc = "pool"
    /\ runs = 1
    /\ remote = [Catalogue EXCEPT !.files[BackupName("b1")] = <<PoolFiles(MaxPoolFiles)>>]
    /\ sep = "/"
    /\ fs = [n \in {LocalName(File12.name, sep)} |-> Content12]
    /\ ledger = <<>>
    /\ bgen = GenYield(GenRequest(NewGen(BackupsPath), Catalogue,
                                  [kind |-> "ok", body |-> NotJson]))
    /\ fgen = [NewGen(BackupName("b1") \o <<"/", "files">>) EXCEPT
                  !.st = "done", !.requests = <<None>>,
                  !.page = PageBody(<<PoolFiles(MaxPoolFiles)>>, <<"files">>, 1),
                  !.i = MaxPoolFiles + 1, !.out = PoolFiles(MaxPoolFiles)]
    /\ backup = BackupRecord("b1", 3)
    /\ files = PoolFiles(MaxPoolFiles)
    /\ nextTask = 1
    /\ inflight = <<>>
    /\ outq = <<>>
    /\ consumed = 0
    /\ num_files = 0
    /\ total_size = 0
    /\ failed = {}
    /\ status = [n \in BackupNames(Catalogue) |->
                    IF n = BackupName("b1") THEN "Transferring" ELSE "Unlisted"]
    /\ reported = {}
    /\ cause = "none"
    /\ probe = NoProbe

SpecPool == InitPool /\ [][NextPool]_vars

-----------------------------------------------------------------------------
(* Properties *)

NumBackups == Len(Flatten(remote.backups))

ExampleId == FileName("b1", "img1.jpg")

\* C1 (SpecList): pagination completeness.  For every listing of N records on
\* P >= 1 pages, what list_path has yielded is at every moment a prefix of
\* the records in page order and in within-page order; it sends at most one
\* request per page; it can always take its next step until it has ended;
\* and when it ends normally the consumer's list is exactly the N records,
\* each once.
C1_PaginationComplete ==
    LET pages == ListingOf(remote, fgen.path)
    IN  /\ IsPrefix(fgen.out, Flatten(pages))
        /\ Len(fgen.requests) <= Len(pages)
        /\ fgen.st \in {"request", "items"} => ENABLED NextList
        /\ fgen.st = "done" =>
              /\ fgen.out = Flatten(pages)
              /\ files = Flatten(pages)
              /\ Len(fgen.requests) = Len(pages)

\* a listing of several pages, one of them empty, has been read to its end
C1_Witness ==
    /\ fgen.st = "done"
    /\ Len(ListingOf(remote, fgen.path)) >= 2
    /\ Len(files) >= 3
    /\ \E i \in 1..Len(ListingOf(remote, fgen.path)) : ListingOf(remote, fgen.path)[i] = <<>>

\* C2 (Spec), as claimed: a failed transfer never leaves the pool as an
\* exception, and a batch of n files of which k < n transfers failed ends
\* with exactly n - k ledger lines written by fetch_all.
C2_PartialFailureIsolation ==
    /\ cause # "transfer"
    /\ (pc = "sync_next" /\ status[backup.name] = "Completed"
            /\ Cardinality(failed) < Len(files))
          => num_files = Len(files) - Cardinality(failed)

\* C3 (Spec), as claimed: every record some fetch has returned normally for
\* passes have_file on its local copy, and a later fetch of it goes straight
\* to its return without a request.
C3_IdempotentSync ==
    /\ \A r \in reported :
          have_file(fs, LocalName(r.name, sep), int(r.sizeBytes), b64decode(r.md5Hash))
    /\ \A i \in DOMAIN inflight :
          inflight[i].file \in reported => inflight[i].phase = "ret"

\* C4 (Spec), as claimed: whenever a ledger line is written, the local file
\* of that line has the declared size and hash, and the request of the
\* transfer, if one was made, did not fail.
C4_LedgerLineBackedByFile ==
    [][Len(ledger') > Len(ledger) =>
          /\ have_file(fs, Head(outq).name, Head(outq).size, Head(outq).md5Hash)
          /\ Head(outq).via \in {"none", "ok"}]_vars

\* C5 (SpecHave): have_file returns true exactly when the file exists, its
\* length is the expected size and the digest of its whole content is the
\* expected hash; and the file system after the call is the one before it.
C5_HaveFileIffSizeAndHash ==
    probe.calls > 0 =>
        /\ probe.result =
              (/\ probe.file \in DOMAIN fs
               /\ Len(fs[probe.file]) = probe.size
               /\ MD5(fs[probe.file]) = probe.md5)
        /\ fs = probe.before

\* have_file has accepted a file
C5_Witness == probe.calls > 0 /\ probe.result /\ Len(fs[probe.file]) = MaxLen

\* C6 (SpecPool): at most POOL_SIZE fetch calls are in flight, with more
\* files listed than the pool has workers.
C6_ConcurrencyBound == Cardinality(DOMAIN inflight) <= POOL_SIZE

\* the pool is full and a task is waiting
C6_Witness == Cardinality(DOMAIN inflight) = POOL_SIZE /\ nextTask <= Len(files)

\* C7 (Spec), as claimed: clients/wa/backups/b1/files/Media/img1.jpg is
\* fetched to Media/img1.jpg.
C7_ExampleMapsToMedia ==
    \A i \in DOMAIN inflight :
        inflight[i].file.name = ExampleId => inflight[i].name = <<"Media", sep, "img1.jpg">>

\* C7 (Spec), amended: the local name is the identifier without its first
\* three segments, joined by the host separator, so that the example maps to
\* b1/files/Media/img1.jpg.
C7_DropsThreeSegments ==
    \A i \in DOMAIN inflight :
        LET segs == Split(inflight[i].file.name, "/")
        IN  /\ Split(inflight[i].name, sep) = SubSeq(segs, 4, Len(segs))
            /\ inflight[i].file.name = ExampleId =>
                  inflight[i].name = <<"b1", sep, "files", sep, "Media", sep, "img1.jpg">>

\* the example identifier is being fetched on a host whose separator is not "/"
C7_Witness ==
    \E i \in DOMAIN inflight : inflight[i].file.name = ExampleId /\ sep = "\\"

\* C8 (Spec), as claimed: the ledger after any step has the ledger before it
\* as a prefix.
C8_AppendOnlyAlways == [][IsPrefix(ledger, ledger')]_vars

\* C8 (Spec), amended: within one sync run the ledger after any step has the
\* ledger before it as a prefix (a step that starts a sync run is the only
\* one that may not).
C8_AppendOnlyWithinRun == [][runs' = runs => IsPrefix(ledger, ledger')]_vars

\* the ledger of one run holds the lines of both backups
C8_Witness == Len(ledger) >= 3

\* C9 (SpecList): once a page request of list_path has failed, on the first
\* page or on a later one, the generator has ended by raising and the
\* consumer has the exception: the list is never completed.
C9_ListingFailureSignaled ==
    fgen.errors > 0 =>
        /\ fgen.st = "raised"
        /\ pc = "exited"
        /\ cause = "listing"

\* a request for a later page has failed, after records were yielded
C9_Witness == fgen.errors > 0 /\ Len(fgen.out) >= 1 /\ Len(fgen.requests) >= 2

StatusEdges ==
    {<<"Unlisted", "Listed">>, <<"Listed", "Confirmed">>, <<"Confirmed", "Transferring">>,
     <<"Transferring", "Completed">>, <<"Transferring", "PartiallyFailed">>}

\* C10 (Spec), as claimed: within a run a backup moves only along Listed ->
\* Confirmed -> Transferring -> Completed | PartiallyFailed, and a failed
\* transfer ends the run only when no backup is left to offer.
C10_PartialFailureDoesNotBlock ==
    [][/\ \A n \in DOMAIN status :
             (runs' = runs /\ status'[n] # status[n]) => <<status[n], status'[n]>> \in StatusEdges
       /\ (pc' = "exited" /\ cause' = "transfer") => Len(bgen.out) = NumBackups]_vars


\* C11 (Spec), as claimed: a failure of the listing of one backup's files
\* ends the run only when no backup is left to offer: the other backups of
\* the run are still offered.
C11_FileListingFailureDoesNotAbort ==
    [][(pc = "listing" /\ pc' = "exited") => Len(bgen.out) = NumBackups]_vars


\* C12 (Spec): every step that adds to the ledger is a step of the loop of
\* fetch_all in the main thread: it takes the result at the head of the
\* queue, adds exactly one line, the line of that result, and leaves every
\* running fetch call as it was; no step of a worker changes the ledger.
C12_LedgerWritesSerialized ==
    [][Len(ledger') > Len(ledger) =>
          /\ pc = "pool"
          /\ outq # <<>>
          /\ outq' = Tail(outq)
          /\ consumed' = consumed + 1
          /\ inflight' = inflight
          /\ ledger' = Append(ledger, LedgerLine(Head(outq).md5Hash, Head(outq).name))]_vars

\* a line has been written while another transfer is still running
C12_Witness == pc = "pool" /\ Len(ledger) >= 1 /\ num_files >= 1 /\ inflight # <<>>


\* the backup a fetch result or a ledger line belongs to: the first segment
\* of the local name
OwnerOfName(name) == name[1]

\* C13 (Spec): a transfer runs, and a result waits, only inside fetch_all,
\* and every one of them belongs to the backup fetch_all was called for; a
\* step that writes a ledger line writes a line of that backup; and a backup
\* is offered for confirmation only when no transfer runs, no result waits
\* and no backup is in the middle of its transfers.
C13_BackupsNeverOverlap ==
    [][/\ (inflight # <<>> \/ outq # <<>>) => pc = "pool"
       /\ \A i \in DOMAIN inflight : IsPrefix(backup.name, inflight[i].file.name)
       /\ \A k \in 1..Len(outq) : outq[k].ok => OwnerOfName(outq[k].name) = Last(backup.name)
       /\ Len(ledger') > Len(ledger) =>
             /\ ledger'[Len(ledger')][3] = Last(backup.name)
             /\ \A i \in DOMAIN inflight : IsPrefix(backup.name, inflight[i].file.name)
       /\ pc' = "confirm" =>
             /\ inflight = <<>> /\ outq = <<>>
             /\ inflight' = <<>> /\ outq' = <<>>
             /\ \A n \in BackupNames(remote) : status[n] # "Transferring"]_vars

\* the second backup is offered after the first was transferred in full
C13_Witness ==
    /\ pc = "confirm"
    /\ backup.name = BackupName("b2")
    /\ status[BackupName("b1")] = "Completed"
    /\ Len(ledger) = 2


\* C14 (SpecList): the requests of one traversal, in the order issued: there
\* are never more of them than pages; the first carries no cursor; the k-th
\* carries the cursor the server sent with page k - 1; and once the page
\* without a cursor has been read there is one request per page and no
\* further request can be issued.
C14_CursorProtocol ==
    LET pages == ListingOf(remote, fgen.path)
        key == last_component(fgen)
        n == Len(fgen.requests)
    IN  /\ n <= Len(pages)
        /\ n >= 1 => fgen.requests[1] = None
        /\ \A k \in 2..n : fgen.requests[k] = PageBody(pages, key, k - 1)[Key("nextPageToken")]
        /\ fgen.st = "items" => fgen.page = PageBody(pages, key, n)
        /\ fgen.st = "done" =>
              /\ n = Len(pages)
              /\ ~ENABLED (\E o \in ListOutcomes : FilesRequest(o))

\* a traversal of three pages has ended
C14_Witness == fgen.st = "done" /\ Len(fgen.requests) = 3 /\ fgen.requests[3] = Cursor[3]


\* C15 (SpecHave): a call of have_file on a path that does not exist, or on a
\* file whose length is not the expected size, returns false without opening
\* the file and without a single call to the hash; on a file of the expected
\* length it opens the file and hashes it.
C15_SizeShortCircuit ==
    probe.calls > 0 =>
        IF probe.file \notin DOMAIN probe.before
              \/ Len(probe.before[probe.file]) # probe.size
        THEN ~probe.result /\ ~probe.opened /\ probe.hashed = 0
        ELSE probe.opened /\ probe.hashed >= 2

\* have_file was called on a file of the expected hash and another length
C15_Witness ==
    /\ probe.calls > 0
    /\ probe.file \in DOMAIN probe.before
    /\ Len(probe.before[probe.file]) # probe.size
    /\ MD5(probe.before[probe.file]) = probe.md5
    /\ probe.hashed = 0


\* a fetch call whose integrity check found a file and rejected it
Mismatched(t) == t.existed /\ t.phase # "ret"

\* C16 (Spec): a fetch call whose check rejected an existing file makes one
\* content request and no second one; when the request is answered, the call
\* ends normally with the local file holding exactly the body of the answer;
\* and the call ends with an exception only when its request got no answer.
C16_MismatchTreatedAsAbsence ==
    [][\A i \in DOMAIN inflight :
          Mismatched(inflight[i]) =>
             /\ inflight[i].reqs = (IF inflight[i].phase = "get" THEN 0 ELSE 1)
             /\ (pc' = "pool" /\ i \notin DOMAIN inflight') =>
                   IF inflight[i].phase = "write"
                   THEN /\ fs'[inflight[i].name] = inflight[i].body
                        /\ outq' = Append(outq, Result(inflight[i]))
                   ELSE /\ inflight[i].phase = "get"
                        /\ outq' = Append(outq, Raised(outq'[Len(outq')].via))
                        /\ outq'[Len(outq')].via \in {"conn_error", "timeout"}]_vars

\* a file of another content was found, the request was answered with the
\* content of the record, and the file has been opened for writing
C16_Witness ==
    /\ pc = "pool"
    /\ \E i \in DOMAIN inflight :
          /\ Mismatched(inflight[i])
          /\ inflight[i].phase = "write"
          /\ inflight[i].via = "ok"
          /\ inflight[i].body = Content11
          /\ fs[inflight[i].name] = <<>>


\* the listing path of the files of a backup
FilesPath(b) == b.name \o <<"/", "files">>

\* C17 (Spec): a step that hands a task to a worker is taken only after the
\* listing of the backup's files has been read to its terminal page, and
\* the task list is the whole listing; and as long as a confirmed backup has
\* not reached its transfers, also when its listing has failed after some
\* pages, no transfer runs, no result waits, and the ledger holds no line of
\* that backup.
C17_ListingPrecedesDispatch ==
    [][/\ DOMAIN inflight' \ DOMAIN inflight # {} =>
             /\ fgen.path = FilesPath(backup)
             /\ fgen.st = "done"
             /\ Len(fgen.requests) = Len(ListingOf(remote, fgen.path))
             /\ files = Flatten(ListingOf(remote, fgen.path))
       /\ status[backup.name] = "Confirmed" =>
             /\ inflight = <<>> /\ outq = <<>>
             /\ inflight' = <<>> /\ outq' = <<>>
             /\ num_files = 0
             /\ \A k \in 1..Len(ledger) : ledger[k][3] # Last(backup.name)]_vars

\* the listing of a confirmed backup has failed on its second page, after
\* the records of the first page were read
C17_Witness ==
    /\ pc = "exited" /\ cause = "listing"
    /\ fgen.path = FilesPath(backup)
    /\ fgen.st = "raised"
    /\ Len(fgen.requests) = 2
    /\ Len(fgen.out) >= 1
    /\ status[backup.name] = "Confirmed"
    /\ inflight = <<>>


C19_ExactlyOnceAndCompletion ==
    [][(pc = "pool" /\ pc' # "pool") =>
          /\ nextTask = Len(files) + 1
          /\ inflight = <<>>
          /\ consumed + Len(outq) = Len(files)]_vars


\* the local name a ledger line was written for
NameOfLine(line) == SubSeq(line, 3, Len(line) - 1)

\* the ledger lines of a backup
LinesOf(lines, b) == SelectSeq(lines, LAMBDA l : OwnerOfName(NameOfLine(l)) = Last(b.name))

\* the size the listing declares for the file of a local name
DeclaredSize(fl, name, s) ==
    LET k == CHOOSE k \in 1..Len(fl) : LocalName(fl[k].name, s) = name
    IN  int(fl[k].sizeBytes)

RECURSIVE SumDeclaredOfLines(_, _, _)
SumDeclaredOfLines(lines, fl, s) ==
    IF lines = <<>> THEN 0
    ELSE DeclaredSize(fl, NameOfLine(lines[1]), s) + SumDeclaredOfLines(Tail(lines), fl, s)

RECURSIVE SumDeclared(_)
SumDeclared(fl) == IF fl = <<>> THEN 0 ELSE int(fl[1].sizeBytes) + SumDeclared(Tail(fl))

\* C20 (Spec): throughout the result loop of fetch_all, and when it has
\* returned, num_files is the number of ledger lines written for this backup
\* and total_size is the sum of the sizes the listing declares for the files
\* of those lines, downloaded or skipped; after a normal return these are the
\* number of listed files and the sum of all declared sizes.
C20_Totals ==
    (pc = "pool" \/ (pc = "sync_next" /\ status[backup.name] = "Completed")) =>
        /\ num_files = Len(LinesOf(ledger, backup))
        /\ num_files = consumed
        /\ total_size = SumDeclaredOfLines(LinesOf(ledger, backup), files, sep)
        /\ status[backup.name] = "Completed" =>
              /\ num_files = Len(files)
              /\ total_size = SumDeclared(files)

\* one file has been counted, and the result of the other, which was found
\* on disk and not requested, waits to be counted with its declared size
C20_Witness ==
    /\ pc = "pool"
    /\ num_files = 1
    /\ Len(LinesOf(ledger, backup)) = 1
    /\ Len(outq) = 1
    /\ Head(outq).via = "none"
    /\ total_size + Head(outq).size = SumDeclared(files)

====
